---- MODULE Spec2Model ----
(***************************************************************************)
(* Session controller and playback scheduler of the voice client           *)
(* (src/App.tsx and its granular-status variant src/unnamed/part_000).     *)
(*                                                                         *)
(* Every call of startConversation is an "attempt" a in Attempts.  The     *)
(* capture stream, the two audio contexts, the two capture nodes and the   *)
(* live session that attempt a creates carry the identity a; the refs of   *)
(* the component hold 0 (null) or such an identity.  All handlers run to   *)
(* completion on one thread; a handler is split only at its awaits.        *)
(***************************************************************************)
EXTENDS Naturals, Sequences, FiniteSets

\* ---- bounds of the model ----
MaxStarts == 2      \* calls of startConversation
MaxAudio == 2       \* inbound events that carry inline audio
MaxDur == 2         \* longest decoded buffer (clock units)
MaxTime == 2        \* furthest reading of one output clock
MaxFrames == 2      \* capture frames delivered to onaudioprocess
MaxSteps == 9       \* handler runs, handler continuations and clock ticks of one run

Attempts == 1..MaxStarts
Null == 0

VARIABLES
    isSessionActive,        \* useState(false)
    agentStatus,            \* useState(Idle), status logic of part_000
    coarseStatus,           \* useState(Idle), status logic of App.tsx
    sessionRef,
    micStreamRef,
    audioContextRef,
    outputAudioContextRef,
    analyserNodeRef,
    scriptProcessorRef,
    mediaStreamSourceRef,
    nextStartTimeRef,       \* the Playback Cursor
    pc,                     \* where each startConversation call stands
    stream,                 \* each attempt's MediaStream
    inCtx,                  \* each attempt's 16 kHz AudioContext
    outCtx,                 \* each attempt's 24 kHz AudioContext
    outTime,                \* currentTime of each output AudioContext
    sess,                   \* each attempt's live session
    scriptNode,             \* each attempt's ScriptProcessorNode
    sourceNode,             \* each attempt's MediaStreamAudioSourceNode
    decodes,                \* onmessage handlers suspended at await decodeAudioData
    scheduled,              \* every source.start(startTime) made so far, in call order
    nextId,                 \* arrival number of the next inline-audio event
    nextFrame,              \* capture number of the next frame
    thenQueue,              \* each sessionPromise's pending then-reactions, in registration order
    sent,                   \* every sendRealtimeInput call made so far, in call order
    lastOp,                 \* the handler (or handler continuation) that ran last, and its event
    steps                   \* how many have run

vars == <<isSessionActive, agentStatus, coarseStatus, sessionRef, micStreamRef,
          audioContextRef, outputAudioContextRef, analyserNodeRef,
          scriptProcessorRef, mediaStreamSourceRef, nextStartTimeRef, pc, stream,
          inCtx, outCtx, outTime, sess, scriptNode, sourceNode, decodes,
          scheduled, nextId, nextFrame, thenQueue, sent, lastOp, steps>>

\* the capture path: onaudioprocess and the reactions of sessionPromise
captureVars == <<nextFrame, thenQueue, sent>>

\* enum AgentStatus
Idle == "Idle"
Listening == "Listening"
Thinking == "Thinking"
Speaking == "Speaking"
Error == "Error"
AgentStatus == {Idle, Listening, Thinking, Speaking, Error}

\* message.serverContent: inputTranscription (absent / isFinal false / isFinal true),
\* turnComplete, and the duration of the buffer that modelTurn.parts[0].inlineData
\* decodes to (0: no inline data).
Messages == [tr : {"none", "partial", "final"}, tc : BOOLEAN, audio : 0..MaxDur]

\* The event a handler other than onmessage is given: none.
NoMessage == [tr |-> "none", tc |-> FALSE, audio |-> 0]

\* nth: for a handler that called stopConversation, 2 if the handler before it
\* called stopConversation too (the calls are in a row), else 1; 0 for the others.
\* calls: the external calls that call of stopConversation made.  lag: it ran
\* before the state attribute of the clocks closed just before had turned 'closed'.
Op(name, raised) ==
    [op |-> name, raised |-> raised, msg |-> NoMessage, nth |-> 0, calls |-> {},
     lag |-> FALSE]

\* The handlers that call stopConversation.
StopOps == {"toggleStop", "onerror", "onclose"}

Max(x, y) == IF x >= y THEN x ELSE y

Init ==
    /\ isSessionActive = FALSE
    /\ agentStatus = Idle
    /\ coarseStatus = Idle
    /\ sessionRef = Null
    /\ micStreamRef = Null
    /\ audioContextRef = Null
    /\ outputAudioContextRef = Null
    /\ analyserNodeRef = Null
    /\ scriptProcessorRef = Null
    /\ mediaStreamSourceRef = Null
    /\ nextStartTimeRef = 0
    /\ pc = [a \in Attempts |-> "idle"]
    /\ stream = [a \in Attempts |-> "none"]
    /\ inCtx = [a \in Attempts |-> "none"]
    /\ outCtx = [a \in Attempts |-> "none"]
    /\ outTime = [a \in Attempts |-> 0]
    /\ sess = [a \in Attempts |-> "none"]
    /\ scriptNode = [a \in Attempts |-> "none"]
    /\ sourceNode = [a \in Attempts |-> "none"]
    /\ decodes = {}
    /\ scheduled = <<>>
    /\ nextId = 1
    /\ nextFrame = 1
    /\ thenQueue = [a \in Attempts |-> <<>>]
    /\ sent = <<>>
    /\ lastOp = Op("init", FALSE)
    /\ steps = 0

\* One more handler, continuation or tick runs, within the bound.
Count == steps < MaxSteps /\ steps' = steps + 1

\* ---- stopConversation (App.tsx 154-181, part_000 115-142) ----

\* session.close(): an open or connecting stream starts closing; its close event follows.
closeSession(ss, ref) ==
    IF ref # Null /\ ss[ref] \in {"connecting", "open"}
    THEN [ss EXCEPT ![ref] = "closing"] ELSE ss

\* getTracks().forEach(track => track.stop())
stopTracks(st, ref) ==
    IF ref # Null THEN [st EXCEPT ![ref] = "stopped"] ELSE st

\* node.disconnect()
disconnectNode(nd, ref) ==
    IF ref # Null THEN [nd EXCEPT ![ref] = "disconnected"] ELSE nd

\* AudioContext.state as a handler reads it.  close() marks the context closed at
\* once (a second close() is rejected and changes nothing), but the attribute is set
\* to 'closed' by a task queued for later: with lagging, that task has not run yet.
stateAttribute(cx, ref, lagging) == IF lagging THEN "running" ELSE cx[ref]

\* closesContext with the state test left out
closesContextAgain(cx, ref, lagging) == ref # Null

\* if (ref.current && ref.current.state !== 'closed'): close() is called
closesContext(cx, ref, lagging) ==
    ref # Null /\ stateAttribute(cx, ref, lagging) # "closed"

\* ref.current.close(), if it is called: a context not yet closed is closed
closeContext(cx, ref) ==
    IF ref # Null /\ cx[ref] # "closed" THEN [cx EXCEPT ![ref] = "closed"] ELSE cx

\* The close event of a failed stream is fired right after its error event, ahead
\* of the tasks queued since: if onerror has just closed a clock, onclose may run
\* before that clock's state attribute has turned 'closed'.
LagPossible ==
    /\ lastOp.op = "onerror"
    /\ lastOp.calls \cap {"audioContext.close", "outputAudioContext.close"} # {}

LagChoices == IF LagPossible THEN BOOLEAN ELSE {FALSE}

\* The external calls of stopConversation, in program order.
StopCallOrder == <<"session.close", "track.stop", "scriptProcessor.disconnect",
                   "mediaStreamSource.disconnect", "audioContext.close",
                   "outputAudioContext.close">>

\* The external calls that a call of stopConversation makes in the current state
\* if none raises.
StopCalls(lag) ==
    {c \in {StopCallOrder[k] : k \in 1..6} :
        \/ c = "session.close" /\ sessionRef # Null
        \/ c = "track.stop" /\ micStreamRef # Null
        \/ c = "scriptProcessor.disconnect" /\ scriptProcessorRef # Null
        \/ c = "mediaStreamSource.disconnect" /\ mediaStreamSourceRef # Null
        \/ c = "audioContext.close"
              /\ closesContext(inCtx, audioContextRef,
                               lag /\ "audioContext.close" \in lastOp.calls)
        \/ c = "outputAudioContext.close"
              /\ closesContext(outCtx, outputAudioContextRef,
                               lag /\ "outputAudioContext.close" \in lastOp.calls)}

\* nextStartTimeRef.current = 0
resetCursor(c) == 0

\* The external calls of stopConversation that can raise, in program order.
StopFaults == {"session.close", "track.stop", "scriptProcessor.disconnect",
               "mediaStreamSource.disconnect"}

\* The statement (1..4) at which stopConversation raises under fault `fail`;
\* 0 when the faulty call is not made (its ref is null) or fail = "none".
RaiseAt(fail) ==
    CASE fail = "session.close" /\ sessionRef # Null -> 1
      [] fail = "track.stop" /\ micStreamRef # Null -> 2
      [] fail = "scriptProcessor.disconnect" /\ scriptProcessorRef # Null -> 3
      [] fail = "mediaStreamSource.disconnect" /\ mediaStreamSourceRef # Null -> 4
      [] OTHER -> 0

\* The external calls stopConversation makes under fault `fail`: those up to and
\* including the one that raises.
MadeCalls(fail, lag) ==
    {c \in StopCalls(lag) :
        RaiseAt(fail) = 0 \/ \E k \in 1..RaiseAt(fail) : StopCallOrder[k] = c}

\* The state stopConversation leaves.  There is no try/catch in it: a call that
\* raises at statement r abandons statements r, r+1, ..., 7.  ss is the state of the
\* sessions and st, cst the statuses pending when it is called (onerror has set Error
\* just before, and the stream event that called it has already happened).
stopConversation(fail, ss, st, cst) ==
    LET r == RaiseAt(fail)
        ran(k) == r = 0 \/ k < r
    IN  [ sessionRef |-> IF ran(1) THEN Null ELSE sessionRef,
          sess |-> IF ran(1) THEN closeSession(ss, sessionRef) ELSE ss,
          micStreamRef |-> IF ran(2) THEN Null ELSE micStreamRef,
          stream |-> IF ran(2) THEN stopTracks(stream, micStreamRef) ELSE stream,
          scriptProcessorRef |-> IF ran(3) THEN Null ELSE scriptProcessorRef,
          scriptNode |-> IF ran(3) THEN disconnectNode(scriptNode, scriptProcessorRef)
                         ELSE scriptNode,
          mediaStreamSourceRef |-> IF ran(4) THEN Null ELSE mediaStreamSourceRef,
          sourceNode |-> IF ran(4) THEN disconnectNode(sourceNode, mediaStreamSourceRef)
                         ELSE sourceNode,
          inCtx |-> IF ran(5) THEN closeContext(inCtx, audioContextRef) ELSE inCtx,
          outCtx |-> IF ran(6) THEN closeContext(outCtx, outputAudioContextRef) ELSE outCtx,
          isSessionActive |-> IF ran(7) THEN FALSE ELSE isSessionActive,
          agentStatus |-> IF ran(7) THEN Idle ELSE st,
          coarseStatus |-> IF ran(7) THEN Idle ELSE cst,
          nextStartTimeRef |-> IF ran(7) THEN resetCursor(nextStartTimeRef)
                               ELSE nextStartTimeRef,
          raised |-> r # 0 ]

\* A handler that ends by calling stopConversation: the state it leaves.  Every
\* onmessage handler suspended at its await has now seen a stop.
Stopped(res, name, calls, lag) ==
    /\ sessionRef' = res.sessionRef
    /\ sess' = res.sess
    /\ micStreamRef' = res.micStreamRef
    /\ stream' = res.stream
    /\ scriptProcessorRef' = res.scriptProcessorRef
    /\ scriptNode' = res.scriptNode
    /\ mediaStreamSourceRef' = res.mediaStreamSourceRef
    /\ sourceNode' = res.sourceNode
    /\ inCtx' = res.inCtx
    /\ outCtx' = res.outCtx
    /\ isSessionActive' = res.isSessionActive
    /\ agentStatus' = res.agentStatus
    /\ coarseStatus' = res.coarseStatus
    /\ nextStartTimeRef' = res.nextStartTimeRef
    /\ decodes' = {[d EXCEPT !.stopped = TRUE] : d \in decodes}
    /\ lastOp' = [Op(name, res.raised) EXCEPT
                      !.nth = IF lastOp.op \in StopOps /\ ~lastOp.raised THEN 2 ELSE 1,
                      !.calls = calls,
                      !.lag = lag]
    /\ Count
    /\ UNCHANGED <<captureVars, audioContextRef, outputAudioContextRef, analyserNodeRef, pc,
                   outTime, scheduled, nextId>>

\* ---- handleToggleSession (App.tsx 273-276, part_000 243-249) ----

\* catchStartup with setIsSessionActive(false) left out
catchStartupKeepsActive(active) == [agentStatus |-> Error, isSessionActive |-> active]

\* catch (error) of startConversation: setAgentStatus(Error); setIsSessionActive(false)
catchStartup(active) == [agentStatus |-> Error, isSessionActive |-> FALSE]

NewAttempt == CHOOSE a \in Attempts : pc[a] = "idle" /\ \A b \in Attempts : pc[b] = "idle" => a <= b

\* startConversation up to its first await (getUserMedia)
startConversation ==
    /\ \E a \in Attempts : pc[a] = "idle"
    /\ agentStatus' = Listening
    /\ coarseStatus' = Listening
    /\ isSessionActive' = TRUE
    /\ pc' = [pc EXCEPT ![NewAttempt] = "awaitMic"]
    /\ lastOp' = Op("toggleStart", FALSE)
    /\ Count
    /\ UNCHANGED <<captureVars, sessionRef, micStreamRef, audioContextRef, outputAudioContextRef,
                   analyserNodeRef, scriptProcessorRef, mediaStreamSourceRef,
                   nextStartTimeRef, stream, inCtx, outCtx, outTime, sess, scriptNode,
                   sourceNode, decodes, scheduled, nextId>>

handleToggleSession(fail) ==
    \/ /\ isSessionActive
       /\ Stopped(stopConversation(fail, sess, agentStatus, coarseStatus),
                  "toggleStop", MadeCalls(fail, FALSE), FALSE)
    \/ /\ ~isSessionActive
       /\ fail = "none"
       /\ startConversation

\* ---- startConversation after its awaits (App.tsx 194-270, part_000 155-240) ----

\* getUserMedia resolved: the stream is stored, both contexts and the analyser are
\* created, the cursor is zeroed, ai.live.connect is called and awaited.
MicGranted(a) ==
    /\ pc[a] = "awaitMic"
    /\ micStreamRef' = a
    /\ stream' = [stream EXCEPT ![a] = "live"]
    /\ audioContextRef' = a
    /\ inCtx' = [inCtx EXCEPT ![a] = "running"]
    /\ outputAudioContextRef' = a
    /\ outCtx' = [outCtx EXCEPT ![a] = "running"]
    /\ nextStartTimeRef' = 0
    /\ analyserNodeRef' = a
    /\ sess' = [sess EXCEPT ![a] = "connecting"]
    /\ pc' = [pc EXCEPT ![a] = "awaitSession"]
    /\ lastOp' = Op("micGranted", FALSE)
    /\ Count
    /\ UNCHANGED <<captureVars, isSessionActive, agentStatus, coarseStatus, sessionRef,
                   scriptProcessorRef, mediaStreamSourceRef, outTime, scriptNode,
                   sourceNode, decodes, scheduled, nextId>>

\* getUserMedia rejected: the catch block runs.
MicDenied(a) ==
    /\ pc[a] = "awaitMic"
    /\ agentStatus' = catchStartup(isSessionActive).agentStatus
    /\ coarseStatus' = catchStartup(isSessionActive).agentStatus
    /\ isSessionActive' = catchStartup(isSessionActive).isSessionActive
    /\ pc' = [pc EXCEPT ![a] = "micDenied"]
    /\ lastOp' = Op("micDenied", FALSE)
    /\ Count
    /\ UNCHANGED <<captureVars, sessionRef, micStreamRef, audioContextRef, outputAudioContextRef,
                   analyserNodeRef, scriptProcessorRef, mediaStreamSourceRef,
                   nextStartTimeRef, stream, inCtx, outCtx, outTime, sess, scriptNode,
                   sourceNode, decodes, scheduled, nextId>>

\* callbacks.onopen: the capture nodes are created and wired.
onopen(a) ==
    /\ sess[a] = "connecting"
    /\ sess' = [sess EXCEPT ![a] = "open"]
    /\ mediaStreamSourceRef' = a
    /\ sourceNode' = [sourceNode EXCEPT ![a] = "connected"]
    /\ scriptProcessorRef' = a
    /\ scriptNode' = [scriptNode EXCEPT ![a] = "connected"]
    /\ lastOp' = Op("onopen", FALSE)
    /\ Count
    /\ UNCHANGED <<captureVars, isSessionActive, agentStatus, coarseStatus, sessionRef, micStreamRef,
                   audioContextRef, outputAudioContextRef, analyserNodeRef,
                   nextStartTimeRef, pc, stream, inCtx, outCtx, outTime, decodes,
                   scheduled, nextId>>

\* reactions with the pending then-callbacks run last-registered first
reactionsReversed(q, a) ==
    [i \in 1..Len(q) |-> [frame |-> q[Len(q) + 1 - i], sess |-> a]]

\* The sendRealtimeInput calls that the then-callbacks q of attempt a's promise
\* make when it is fulfilled: reactions run in the order they were registered.
reactions(q, a) ==
    [i \in 1..Len(q) |-> [frame |-> q[i], sess |-> a]]

\* sessionRef.current = await sessionPromise, the promise fulfilled: the await of
\* startConversation was registered first, the then-callbacks of the frames captured
\* since follow it in the same microtask drain.
SessionResolved(a) ==
    /\ pc[a] = "awaitSession"
    /\ sess[a] # "connecting"
    /\ sessionRef' = a
    /\ pc' = [pc EXCEPT ![a] = "done"]
    /\ sent' = sent \o reactions(thenQueue[a], a)
    /\ thenQueue' = [thenQueue EXCEPT ![a] = <<>>]
    /\ lastOp' = Op("sessionResolved", FALSE)
    /\ Count
    /\ UNCHANGED <<nextFrame, isSessionActive, agentStatus, coarseStatus, micStreamRef,
                   audioContextRef, outputAudioContextRef, analyserNodeRef,
                   scriptProcessorRef, mediaStreamSourceRef, nextStartTimeRef, stream,
                   inCtx, outCtx, outTime, sess, scriptNode, sourceNode, decodes,
                   scheduled, nextId>>

\* scriptProcessor.onaudioprocess of attempt a: the frame is encoded and
\* sessionPromise.then(session => session.sendRealtimeInput(frame)) is called.  On a
\* fulfilled promise the callback runs in the microtask that follows the handler; on
\* a pending one it waits, behind the callbacks registered before it.  The node
\* fires while it is connected in a running context.
onaudioprocess(a) ==
    /\ scriptNode[a] = "connected"
    /\ inCtx[a] = "running"
    /\ nextFrame <= MaxFrames
    /\ nextFrame' = nextFrame + 1
    /\ IF pc[a] = "done"
       THEN /\ sent' = sent \o reactions(<<nextFrame>>, a)
            /\ UNCHANGED thenQueue
       ELSE /\ thenQueue' = [thenQueue EXCEPT ![a] = Append(@, nextFrame)]
            /\ UNCHANGED sent
    /\ lastOp' = Op("onaudioprocess", FALSE)
    /\ Count
    /\ UNCHANGED <<isSessionActive, agentStatus, coarseStatus, sessionRef, micStreamRef,
                   audioContextRef, outputAudioContextRef, analyserNodeRef,
                   scriptProcessorRef, mediaStreamSourceRef, nextStartTimeRef, pc, stream,
                   inCtx, outCtx, outTime, sess, scriptNode, sourceNode, decodes,
                   scheduled, nextId>>

\* await sessionPromise, the promise rejected (the handshake failed): the catch block
ConnectFailed(a) ==
    /\ pc[a] = "awaitSession"
    /\ sess[a] = "connecting"
    /\ sess' = [sess EXCEPT ![a] = "closed"]
    /\ agentStatus' = catchStartup(isSessionActive).agentStatus
    /\ coarseStatus' = catchStartup(isSessionActive).agentStatus
    /\ isSessionActive' = catchStartup(isSessionActive).isSessionActive
    /\ pc' = [pc EXCEPT ![a] = "connectFailed"]
    /\ lastOp' = Op("connectFailed", FALSE)
    /\ Count
    /\ UNCHANGED <<captureVars, sessionRef, micStreamRef, audioContextRef, outputAudioContextRef,
                   analyserNodeRef, scriptProcessorRef, mediaStreamSourceRef,
                   nextStartTimeRef, stream, inCtx, outCtx, outTime, scriptNode,
                   sourceNode, decodes, scheduled, nextId>>

\* ---- callbacks.onmessage (App.tsx 231-252, part_000 193-222) ----

\* audioBranch with the audioData test left out
audioBranchNoData(m) ==
    outputAudioContextRef # Null /\ analyserNodeRef # Null

\* if (audioData && outputAudioContextRef.current && analyserNodeRef.current)
audioBranch(m) ==
    m.audio # 0 /\ outputAudioContextRef # Null /\ analyserNodeRef # Null

\* granularStatus with the isFinal test left out
granularStatusNoFinal(m, taken, s) ==
    LET s1 == IF m.tr # "none" THEN Listening ELSE s
        s2 == IF m.tc THEN Listening ELSE s1
    IN  IF taken THEN Speaking ELSE s2

\* granularStatus with the turnComplete test left out
granularStatusNoTurnComplete(m, taken, s) ==
    LET s1 == IF m.tr = "final" THEN Thinking
              ELSE IF m.tr = "partial" THEN Listening ELSE s
    IN  IF taken THEN Speaking ELSE s1

\* part_000: final transcription -> Thinking, partial -> Listening, then
\* turnComplete -> Listening, then the audio branch -> Speaking; the last set wins.
granularStatus(m, taken, s) ==
    LET s1 == IF m.tr = "final" THEN Thinking
              ELSE IF m.tr = "partial" THEN Listening ELSE s
        s2 == IF m.tc THEN Listening ELSE s1
    IN  IF taken THEN Speaking ELSE s2

\* collapsedStatus with the turnComplete test left out
collapsedStatusNoTurnComplete(m, taken, s) ==
    LET s1 == IF m.tr # "none" THEN Listening ELSE s
    IN  IF taken THEN Speaking ELSE s1

\* App.tsx: any transcription or turnComplete -> Listening, then the audio branch
\* -> Speaking.
collapsedStatus(m, taken, s) ==
    LET s1 == IF m.tr # "none" \/ m.tc THEN Listening ELSE s
    IN  IF taken THEN Speaking ELSE s1

\* schedule with Math.max left out: the buffer starts at currentTime
scheduleNoMax(now, cursor, dur) ==
    [start |-> now, cursor |-> now + dur]

\* schedule with the cursor advanced from currentTime, not from startTime
scheduleCursorFromNow(now, cursor, dur) ==
    [start |-> Max(now, cursor), cursor |-> now + dur]

\* schedule with the cursor advanced from its old value, not from startTime
scheduleCursorFromCursor(now, cursor, dur) ==
    [start |-> Max(now, cursor), cursor |-> cursor + dur]

\* currentTime, startTime = Math.max(currentTime, cursor), source.start(startTime),
\* cursor = startTime + audioBuffer.duration
schedule(now, cursor, dur) ==
    [start |-> Max(now, cursor), cursor |-> Max(now, cursor) + dur]

\* onmessage up to its await: the statuses are set and, in the audio branch,
\* decodeAudioData is called with the output context the ref holds now.  Each call
\* awaits its own promise, which resolves at a time of its own.
onmessage(a, m) ==
    /\ sess[a] = "open"
    /\ m.audio # 0 => nextId <= MaxAudio
    /\ agentStatus' = granularStatus(m, audioBranch(m), agentStatus)
    /\ coarseStatus' = collapsedStatus(m, audioBranch(m), coarseStatus)
    /\ IF audioBranch(m)
       THEN /\ decodes' = decodes \cup {[id |-> nextId, sess |-> a, dur |-> m.audio,
                                         ctx |-> outputAudioContextRef, stopped |-> FALSE]}
            /\ nextId' = nextId + 1
       ELSE UNCHANGED <<decodes, nextId>>
    /\ lastOp' = [Op("onmessage", FALSE) EXCEPT !.msg = m]
    /\ Count
    /\ UNCHANGED <<captureVars, isSessionActive, sessionRef, micStreamRef, audioContextRef,
                   outputAudioContextRef, analyserNodeRef, scriptProcessorRef,
                   mediaStreamSourceRef, nextStartTimeRef, pc, stream, inCtx, outCtx,
                   outTime, sess, scriptNode, sourceNode, scheduled>>

\* onmessage after its await: decodeAudioData of event d has resolved.  Nothing is
\* re-checked: the clock and the analyser are whatever the refs hold now, and a
\* closed AudioContext still answers currentTime and createBufferSource.
decodeDone(d) ==
    /\ d \in decodes
    /\ LET ctx == outputAudioContextRef
           sch == schedule(outTime[ctx], nextStartTimeRef, d.dur)
       IN  /\ scheduled' = Append(scheduled,
                 [id |-> d.id, sess |-> d.sess, ctx0 |-> d.ctx, ctx |-> ctx,
                  clock |-> outCtx[ctx], now |-> outTime[ctx], cursor |-> nextStartTimeRef,
                  start |-> sch.start, dur |-> d.dur, afterStop |-> d.stopped])
           /\ nextStartTimeRef' = sch.cursor
    /\ decodes' = decodes \ {d}
    /\ lastOp' = Op("decodeDone", FALSE)
    /\ Count
    /\ UNCHANGED <<captureVars, isSessionActive, agentStatus, coarseStatus, sessionRef, micStreamRef,
                   audioContextRef, outputAudioContextRef, analyserNodeRef,
                   scriptProcessorRef, mediaStreamSourceRef, pc, stream, inCtx, outCtx,
                   outTime, sess, scriptNode, sourceNode, nextId>>

\* Some suspended onmessage handler resumes; none has precedence over another.
onmessageResumed == \E d \in decodes : decodeDone(d)

\* ---- callbacks.onerror, callbacks.onclose (App.tsx 253-260, part_000 223-230) ----

\* setAgentStatus(Error); stopConversation().  The faulted stream is closing.
onerror(a, fail) ==
    /\ sess[a] = "open"
    /\ Stopped(stopConversation(fail, [sess EXCEPT ![a] = "closing"], Error, Error),
               "onerror", MadeCalls(fail, FALSE), FALSE)

\* onclose with the call of stopConversation left out
oncloseNoStop(a, fail) ==
    /\ sess[a] \in {"open", "closing"}
    /\ sess' = [sess EXCEPT ![a] = "closed"]
    /\ lastOp' = Op("onclose", FALSE)
    /\ Count
    /\ UNCHANGED <<captureVars, isSessionActive, agentStatus, coarseStatus, sessionRef, micStreamRef,
                   audioContextRef, outputAudioContextRef, analyserNodeRef,
                   scriptProcessorRef, mediaStreamSourceRef, nextStartTimeRef, pc, stream,
                   inCtx, outCtx, outTime, scriptNode, sourceNode, decodes, scheduled,
                   nextId>>

\* stopConversation().  The close event is the stream's last: it comes after
\* session.close(), after an error, or from the remote side.
onclose(a, fail) ==
    /\ sess[a] \in {"open", "closing"}
    /\ \E lag \in LagChoices :
           Stopped(stopConversation(fail, [sess EXCEPT ![a] = "closed"], agentStatus,
                                    coarseStatus),
                   "onclose", MadeCalls(fail, lag), lag)

\* ---- the output clocks ----

\* AudioContext.currentTime of a running context advances; a closed one is frozen.
Tick(a) ==
    /\ outCtx[a] = "running"
    /\ outTime[a] < MaxTime
    /\ outTime' = [outTime EXCEPT ![a] = @ + 1]
    /\ Count
    /\ UNCHANGED <<captureVars, isSessionActive, agentStatus, coarseStatus, sessionRef, micStreamRef,
                   audioContextRef, outputAudioContextRef, analyserNodeRef,
                   scriptProcessorRef, mediaStreamSourceRef, nextStartTimeRef, pc, stream,
                   inCtx, outCtx, sess, scriptNode, sourceNode, decodes, scheduled,
                   nextId, lastOp>>

\* ---- specifications ----

\* No external call of stopConversation raises.
Next ==
    \/ handleToggleSession("none")
    \/ \E a \in Attempts : MicGranted(a)
    \/ \E a \in Attempts : MicDenied(a)
    \/ \E a \in Attempts : onopen(a)
    \/ \E a \in Attempts : SessionResolved(a)
    \/ \E a \in Attempts : ConnectFailed(a)
    \/ \E a \in Attempts : \E m \in Messages : onmessage(a, m)
    \/ onmessageResumed
    \/ \E a \in Attempts : onerror(a, "none")
    \/ \E a \in Attempts : onclose(a, "none")
    \/ \E a \in Attempts : Tick(a)

Spec == Init /\ [][Next]_vars

\* One call that stopConversation makes raises.
StopRaises ==
    \E fail \in StopFaults :
        /\ RaiseAt(fail) # 0
        /\ \/ handleToggleSession(fail)
           \/ \E a \in Attempts : onerror(a, fail)
           \/ \E a \in Attempts : onclose(a, fail)

NextF == Next \/ StopRaises

SpecF == Init /\ [][NextF]_vars

\* The capture path beside the handlers: frames are delivered to onaudioprocess.
NextC == Next \/ \E a \in Attempts : onaudioprocess(a)

SpecC == Init /\ [][NextC]_vars

\* ---- what the claims speak of ----

LiveStreams == {a \in Attempts : stream[a] = "live"}
OpenSessions == {a \in Attempts : sess[a] \in {"connecting", "open"}}
OpenClocks == {a \in Attempts : inCtx[a] = "running" \/ outCtx[a] = "running"}
Scheduled == DOMAIN scheduled

\* C1: on one output clock no buffer is given a start time earlier than the end
\* (start + duration) of a buffer scheduled before it: scheduled intervals never overlap.
C1_NoOverlap ==
    \A i, j \in Scheduled :
        (i < j /\ scheduled[i].ctx = scheduled[j].ctx)
            => scheduled[j].start >= scheduled[i].start + scheduled[i].dur

\* C2: an onmessage handler that was suspended at its await while stopConversation
\* ran starts no buffer source when its decode completes.
C2_NothingScheduledAfterStop ==
    \A i \in Scheduled : ~scheduled[i].afterStop

\* C3: at most one session's resources exist at any time: never two un-stopped
\* capture streams, two open stream sessions, or two open pairs of audio clocks.
C3_OneSessionAtATime ==
    /\ Cardinality(LiveStreams) <= 1
    /\ Cardinality(OpenSessions) <= 1
    /\ Cardinality(OpenClocks) <= 1

\* What the refs hold is torn down: no session handle, no capture stream and no
\* capture node is held, and the clocks the refs still name are closed.
TornDown ==
    /\ sessionRef = Null
    /\ micStreamRef = Null
    /\ scriptProcessorRef = Null
    /\ mediaStreamSourceRef = Null
    /\ audioContextRef # Null => inCtx[audioContextRef] = "closed"
    /\ outputAudioContextRef # Null => outCtx[outputAudioContextRef] = "closed"

\* C4: once the onerror handler has finished, the session is torn down and
\* agentStatus is Error.
C4_ErrorAfterTeardown ==
    lastOp.op = "onerror" => (TornDown /\ agentStatus = Error /\ coarseStatus = Error)

\* C5: a failed stream handshake leaves agentStatus Error, isSessionActive false,
\* no un-stopped capture stream and no open audio clock.
C5_NoPartialStartup ==
    lastOp.op = "connectFailed" =>
        /\ agentStatus = Error
        /\ ~isSessionActive
        /\ LiveStreams = {}
        /\ OpenClocks = {}

\* C6: when microphone access is denied, agentStatus is Error and isSessionActive
\* is false once the catch block has run, and the denied start attempt never opens
\* an audio clock, a capture stream or a stream session.
C6_MicDenied ==
    /\ lastOp.op = "micDenied" =>
           (agentStatus = Error /\ coarseStatus = Error /\ ~isSessionActive)
    /\ \A a \in Attempts :
           pc[a] = "micDenied" =>
               /\ stream[a] = "none"
               /\ inCtx[a] = "none"
               /\ outCtx[a] = "none"
               /\ sess[a] = "none"

\* C6 witness: the catch block has just run for a denied attempt.
C6_Witness ==
    lastOp.op = "micDenied" /\ \E a \in Attempts : pc[a] = "micDenied"

\* C7: a toggle that stops a fully started session (its handle is stored in
\* sessionRef) closes that handle and leaves every capture track stopped, both
\* audio clocks closed, the cursor 0, isSessionActive false and agentStatus Idle.
C7_ToggleStopReleasesAll ==
    [][ (isSessionActive /\ sessionRef # Null /\ lastOp'.op = "toggleStop") =>
            /\ sess'[sessionRef] \in {"closing", "closed"}
            /\ LiveStreams' = {}
            /\ OpenClocks' = {}
            /\ nextStartTimeRef' = 0
            /\ ~isSessionActive'
            /\ agentStatus' = Idle ]_vars

\* What does hold of that toggle: everything the refs hold is torn down.
ToggleStopReleasesRefs ==
    [][ (isSessionActive /\ sessionRef # Null /\ lastOp'.op = "toggleStop") =>
            /\ pc[sessionRef] = "done"
            /\ sess'[sessionRef] \in {"closing", "closed"}
            /\ micStreamRef # Null => stream'[micStreamRef] = "stopped"
            /\ inCtx'[audioContextRef] = "closed"
            /\ outCtx'[outputAudioContextRef] = "closed"
            /\ TornDown'
            /\ nextStartTimeRef' = 0
            /\ ~isSessionActive'
            /\ agentStatus' = Idle
            /\ coarseStatus' = Idle ]_vars

\* C8: whenever stopConversation has been called, even if one of its calls raised,
\* the capture stream is released, both clocks are closed, the cursor is 0 and the
\* status is Idle.
C8_StepsIndependent ==
    lastOp.op \in {"toggleStop", "onerror", "onclose"} =>
        /\ micStreamRef = Null
        /\ audioContextRef # Null => inCtx[audioContextRef] = "closed"
        /\ outputAudioContextRef # Null => outCtx[outputAudioContextRef] = "closed"
        /\ nextStartTimeRef = 0
        /\ ~isSessionActive
        /\ agentStatus = Idle

\* C9: of two inline-audio events of one session, the one that arrived first is
\* scheduled first and gets the earlier start time.
C9_ArrivalOrder ==
    \A i, j \in Scheduled :
        (scheduled[i].sess = scheduled[j].sess /\ scheduled[i].id < scheduled[j].id)
            => (i < j /\ scheduled[i].start < scheduled[j].start)

\* Every inline-audio event so far has exactly one buffer: still decoding, or scheduled.
OneBufferPerEvent ==
    \A id \in 1..(nextId - 1) :
        Cardinality({d \in decodes : d.id = id})
            + Cardinality({i \in Scheduled : scheduled[i].id = id}) = 1

\* C10 as stated: every event with a final transcription leaves Thinking, every
\* event with a partial one Listening, every event with inline audio Speaking
\* and one buffer.
C10_AsStated ==
    [][ \A a \in Attempts : \A m \in Messages :
            (lastOp'.op = "onmessage" /\ onmessage(a, m)) =>
                /\ m.tr = "final" => agentStatus' = Thinking
                /\ m.tr = "partial" => agentStatus' = Listening
                /\ m.audio # 0 => (agentStatus' = Speaking /\ OneBufferPerEvent') ]_vars

\* C10 amended: in the granular variant an event with a final transcription and
\* neither turn-complete nor inline audio leaves Thinking (the coarse variant leaves
\* Listening), one with a partial transcription and no inline audio leaves
\* Listening, and one with inline audio leaves Speaking in both variants and starts
\* exactly one decode; every such event has exactly one buffer, decoding or scheduled.
C10_Amended ==
    /\ []OneBufferPerEvent
    /\ [][ \A a \in Attempts : \A m \in Messages :
               (lastOp'.op = "onmessage" /\ onmessage(a, m)) =>
                   /\ (m.tr = "final" /\ ~m.tc /\ m.audio = 0) =>
                          (agentStatus' = Thinking /\ coarseStatus' = Listening)
                   /\ (m.tr = "partial" /\ m.audio = 0) =>
                          (agentStatus' = Listening /\ coarseStatus' = Listening)
                   /\ m.audio # 0 =>
                          /\ agentStatus' = Speaking
                          /\ coarseStatus' = Speaking
                          /\ Cardinality(decodes') = Cardinality(decodes) + 1
                          /\ scheduled' = scheduled ]_vars

\* C10 witness: a final transcription has just been handled in a session that has
\* one buffer scheduled.
C10_Witness ==
    /\ lastOp.op = "onmessage"
    /\ agentStatus = Thinking
    /\ coarseStatus = Listening
    /\ Len(scheduled) = 1
    /\ decodes = {}

\* C11 as stated: after onmessage has handled an event that carries turnComplete,
\* agentStatus is Listening, whatever else the event carries.
C11_AsStated ==
    (lastOp.op = "onmessage" /\ lastOp.msg.tc) => agentStatus = Listening

\* C11 amended: after onmessage has handled an event that carries turnComplete,
\* the status is Listening in both variants if the event carries no inline audio,
\* whatever transcription it carries, and Speaking if it carries inline audio.
C11_Amended ==
    (lastOp.op = "onmessage" /\ lastOp.msg.tc) =>
        IF lastOp.msg.audio = 0
        THEN agentStatus = Listening /\ coarseStatus = Listening
        ELSE agentStatus = Speaking /\ coarseStatus = Speaking

\* C11 witness: an event with a final transcription and turnComplete has just been
\* handled after a buffer was scheduled, and the status is Listening.
C11_Witness ==
    /\ lastOp.op = "onmessage"
    /\ lastOp.msg.tc
    /\ lastOp.msg.tr = "final"
    /\ lastOp.msg.audio = 0
    /\ Len(scheduled) >= 1
    /\ agentStatus = Listening

\* C12: once the onclose handler has finished, whoever closed the stream and
\* whatever the status was, what the refs hold is torn down as by a user stop, the
\* cursor is 0, agentStatus is Idle and isSessionActive is false.
C12_CloseForcesIdle ==
    lastOp.op = "onclose" =>
        /\ TornDown
        /\ nextStartTimeRef = 0
        /\ ~isSessionActive
        /\ agentStatus = Idle
        /\ coarseStatus = Idle

\* C12 witness: the remote side has closed a stream whose last event carried inline
\* audio (the five handlers start, microphone granted, onopen, onmessage, onclose
\* have run: the close arrived in status Speaking, with the decode still pending).
C12_Witness ==
    /\ lastOp.op = "onclose"
    /\ steps = 5
    /\ decodes # {}
    /\ agentStatus = Idle
    /\ ~isSessionActive

\* The buffers scheduled on output clock c, in scheduling order.
OnClock(c) == SelectSeq(scheduled, LAMBDA e : e.ctx = c)

RECURSIVE SumDur(_)
SumDur(s) == IF s = <<>> THEN 0 ELSE s[1].dur + SumDur(Tail(s))

\* Every buffer after the first was scheduled when the clock had not passed the cursor.
KeepsPace(s) == \A k \in 2..Len(s) : s[k].now <= s[k].cursor

\* Each buffer starts at the previous one's end, and the last one ends at the first
\* start plus the sum of the durations.
NoDrift(s) ==
    /\ \A k \in 2..Len(s) : s[k].start = s[k-1].start + s[k-1].dur
    /\ s # <<>> => s[Len(s)].start + s[Len(s)].dur = s[1].start + SumDur(s)

\* C13: on one output clock, if every buffer after the first is scheduled while
\* the clock has not passed the cursor, each buffer starts exactly at the previous
\* buffer's end and the n-th buffer ends at the first start time plus d1+...+dn.
C13_NoDrift ==
    \A c \in Attempts : KeepsPace(OnClock(c)) => NoDrift(OnClock(c))

\* What does hold: the same of the buffers scheduled while their clock was running.
NoDriftOnRunningClock ==
    \A c \in Attempts :
        LET s == SelectSeq(scheduled, LAMBDA e : e.ctx = c /\ e.clock = "running")
        IN  KeepsPace(s) => NoDrift(s)

\* The output clock the ref holds lives through this step: the ref names the same
\* clock before and after, and that clock is running after.
ClockLives ==
    /\ outputAudioContextRef # Null
    /\ outputAudioContextRef' = outputAudioContextRef
    /\ outCtx'[outputAudioContextRef] = "running"

\* C14: while one output clock lives the cursor never decreases and changes only
\* in the scheduling step of onmessage; every scheduling step schedules one buffer
\* and sets the cursor once, to that buffer's end; and the cursor is 0 whenever the
\* ref is given a new output clock.
C14_CursorDiscipline ==
    /\ [][ ClockLives =>
               /\ nextStartTimeRef' >= nextStartTimeRef
               /\ nextStartTimeRef' # nextStartTimeRef =>
                      (lastOp'.op = "decodeDone" /\ Len(scheduled') = Len(scheduled) + 1) ]_vars
    /\ [][ scheduled' # scheduled =>
               /\ Len(scheduled') = Len(scheduled) + 1
               /\ SubSeq(scheduled', 1, Len(scheduled)) = scheduled
               /\ nextStartTimeRef' = scheduled'[Len(scheduled')].start
                                          + scheduled'[Len(scheduled')].dur ]_vars
    /\ [][ outputAudioContextRef' # outputAudioContextRef =>
               (nextStartTimeRef' = 0 /\ outCtx'[outputAudioContextRef'] = "running") ]_vars

\* C14 witness: on a clock that began with the cursor at 0, two buffers have been
\* scheduled while it was running, the second from a cursor that had advanced
\* past the clock.
C14_Witness ==
    /\ Len(scheduled) = 2
    /\ scheduled[1].ctx = scheduled[2].ctx
    /\ scheduled[1].cursor = 0
    /\ scheduled[2].clock = "running"
    /\ scheduled[2].cursor > scheduled[2].now
    /\ nextStartTimeRef = scheduled[2].start + scheduled[2].dur
    /\ nextStartTimeRef > scheduled[2].cursor

\* The granular status with Thinking mapped to Listening.
Collapse(s) == IF s = Thinking THEN Listening ELSE s

\* C15: after every step the status of the coarse variant (App.tsx) is the status
\* of the granular variant (part_000) with Thinking mapped to Listening.  The two
\* variants are run on the same events, starts and stops, and their scheduling
\* code is the same text, so they schedule the same buffers from the same cursor.
C15_CollapsedVariant ==
    /\ coarseStatus = Collapse(agentStatus)
    /\ coarseStatus # Thinking

\* C15 witness: a final transcription has just been handled while a decode is
\* pending: the granular variant shows Thinking, the coarse one Listening.
C15_Witness ==
    /\ lastOp.op = "onmessage"
    /\ lastOp.msg.tr = "final"
    /\ decodes # {}
    /\ agentStatus = Thinking
    /\ coarseStatus = Listening

\* C16: of two frames delivered to one session's onaudioprocess, sendRealtimeInput
\* is called for the earlier before the later, also for frames captured before the
\* session promise was fulfilled; no frame is sent twice.
C16_CaptureOrder ==
    \A i, j \in DOMAIN sent :
        /\ (sent[i].sess = sent[j].sess /\ sent[i].frame < sent[j].frame) => i < j
        /\ sent[i].frame = sent[j].frame => i = j

\* C16 witness: two frames were captured before the session promise was fulfilled
\* (start, microphone granted, onopen, two frames) and its fulfilment has just sent both.
C16_Witness ==
    /\ lastOp.op = "sessionResolved"
    /\ steps = 6
    /\ Len(sent) >= 2
    /\ sent[1].sess = sent[2].sess
    /\ sent[1].frame = 1
    /\ sent[2].frame = 2

\* C17: each scheduling step reads the clock the ref holds and the cursor, starts
\* the buffer at the clock time if the clock has passed the cursor and at the
\* cursor otherwise, and sets the cursor to that start time plus the duration.
C17_StartIsMax ==
    /\ [](\A i \in Scheduled :
              /\ scheduled[i].now > scheduled[i].cursor => scheduled[i].start = scheduled[i].now
              /\ scheduled[i].now <= scheduled[i].cursor => scheduled[i].start = scheduled[i].cursor)
    /\ [][ scheduled' # scheduled =>
               LET e == scheduled'[Len(scheduled')]
               IN  /\ e.now = outTime[outputAudioContextRef]
                   /\ e.cursor = nextStartTimeRef
                   /\ nextStartTimeRef' = e.start + e.dur ]_vars

\* C17 witness: one buffer was scheduled after the clock had passed the cursor
\* and started at the clock time, the next while the cursor was ahead of the clock
\* and started at the cursor.
C17_Witness ==
    /\ Len(scheduled) = 2
    /\ scheduled[1].now > scheduled[1].cursor
    /\ scheduled[1].start = scheduled[1].now
    /\ scheduled[2].now < scheduled[2].cursor
    /\ scheduled[2].start = scheduled[2].cursor
    /\ nextStartTimeRef = scheduled[2].start + scheduled[2].dur

\* The last scheduling step was made on the output clock the ref holds.
ScheduledOnCurrentClock ==
    scheduled # <<>> /\ scheduled[Len(scheduled)].ctx = outputAudioContextRef

\* C18 as stated: in every state in which a buffer has been scheduled on the
\* output clock the ref holds, the cursor is at least the clock time read in the
\* last scheduling step.
C18_AsStated ==
    ScheduledOnCurrentClock => nextStartTimeRef >= scheduled[Len(scheduled)].now

\* C18 amended: right after every scheduling step the cursor is at least the clock
\* time read in that step, and it stays so in every state in which the output
\* clock the ref holds has a buffer scheduled on it and is still running.
C18_Amended ==
    /\ [][ scheduled' # scheduled =>
               nextStartTimeRef' >= scheduled'[Len(scheduled')].now ]_vars
    /\ []( (ScheduledOnCurrentClock /\ outCtx[outputAudioContextRef] = "running")
               => nextStartTimeRef >= scheduled[Len(scheduled)].now )

\* C18 witness: a buffer has just been scheduled on the running clock after the
\* clock had advanced past the cursor.
C18_Witness ==
    /\ lastOp.op = "decodeDone"
    /\ ScheduledOnCurrentClock
    /\ outCtx[outputAudioContextRef] = "running"
    /\ scheduled[Len(scheduled)].now > scheduled[Len(scheduled)].cursor
    /\ nextStartTimeRef > scheduled[Len(scheduled)].now

\* C19: whenever isSessionActive is false, agentStatus is Idle or Error.
C19_InactiveIsIdleOrError ==
    ~isSessionActive => (agentStatus \in {Idle, Error} /\ coarseStatus \in {Idle, Error})

\* No call of startConversation is suspended at an await.
NoStartPending == \A a \in Attempts : pc[a] \notin {"awaitMic", "awaitSession"}

\* C20: whenever isSessionActive is false and no start is pending, no start attempt
\* whose awaits have completed has an un-stopped capture stream, an open stream
\* session or an open audio clock (an attempt whose handshake failed is C5's case).
C20_StopDuringStartup ==
    (~isSessionActive /\ NoStartPending) =>
        \A a \in Attempts :
            pc[a] = "done" =>
                /\ a \notin LiveStreams
                /\ a \notin OpenSessions
                /\ a \notin OpenClocks

\* C21: a buffer whose decode was begun on the output clock of the session that
\* delivered it, and completes after a stopConversation, is not scheduled on another
\* session's output clock (whose cursor the scheduling step would set).
C21_OwnClock ==
    \A i \in Scheduled :
        (scheduled[i].afterStop /\ scheduled[i].ctx0 = scheduled[i].sess)
            => scheduled[i].ctx = scheduled[i].sess


\* A call of stopConversation in the current state leaves every field it assigns
\* as it is.
StopIsNoOp ==
    LET res == stopConversation("none", sess, agentStatus, coarseStatus)
    IN  /\ res.sessionRef = sessionRef
        /\ res.sess = sess
        /\ res.micStreamRef = micStreamRef
        /\ res.stream = stream
        /\ res.scriptProcessorRef = scriptProcessorRef
        /\ res.scriptNode = scriptNode
        /\ res.mediaStreamSourceRef = mediaStreamSourceRef
        /\ res.sourceNode = sourceNode
        /\ res.inCtx = inCtx
        /\ res.outCtx = outCtx
        /\ res.isSessionActive = isSessionActive
        /\ res.agentStatus = agentStatus
        /\ res.coarseStatus = coarseStatus
        /\ res.nextStartTimeRef = nextStartTimeRef

\* What a second call of stopConversation in a row keeps.
SecondStopKeeps ==
    UNCHANGED <<sessionRef, micStreamRef, scriptProcessorRef, mediaStreamSourceRef,
                audioContextRef, outputAudioContextRef, stream, scriptNode, sourceNode,
                inCtx, outCtx, isSessionActive, agentStatus, coarseStatus,
                nextStartTimeRef>>

\* C22 as stated: a second call of stopConversation in a row leaves the state of
\* the first and makes no external call: it closes no stream handle, stops no
\* track and closes no clock again.
C22_AsStated ==
    [][ lastOp'.nth = 2 => (SecondStopKeeps /\ lastOp'.calls = {}) ]_vars

\* C22 amended: right after a call of stopConversation a second call would change
\* nothing; when the next handler calls it again, the state is the one the first
\* call left, no stream handle is closed, no track stopped and no node
\* disconnected, and close() is called again on a clock only if the state
\* attribute of that clock has not yet turned 'closed' since the first call.
C22_Amended ==
    /\ []((lastOp.op \in StopOps) => StopIsNoOp)
    /\ [][ lastOp'.nth = 2 =>
               /\ SecondStopKeeps
               /\ lastOp'.calls \subseteq {"audioContext.close", "outputAudioContext.close"}
               /\ lastOp'.calls \subseteq lastOp.calls
               /\ lastOp'.calls # {} => lastOp'.lag ]_vars

\* C22 witness: a stream error has stopped a started session and the close event
\* that follows it has called stopConversation again, once before the clocks'
\* state attributes had turned 'closed' (close() was called again on both).
C22_Witness ==
    /\ lastOp.op = "onclose"
    /\ lastOp.nth = 2
    /\ lastOp.lag
    /\ lastOp.calls = {"audioContext.close", "outputAudioContext.close"}
    /\ \E a \in Attempts :
           /\ sess[a] = "closed"
           /\ stream[a] = "stopped"
           /\ inCtx[a] = "closed"
           /\ outCtx[a] = "closed"
    /\ ~isSessionActive
    /\ agentStatus = Idle


\* C23: an onmessage call for an event without inline audio leaves the cursor as
\* it is, schedules nothing and begins no decode; one for an event with no
\* transcription, no turnComplete and no inline audio also leaves agentStatus (in
\* both variants) and isSessionActive as they are.
C23_FrameEffect ==
    [][ lastOp'.op = "onmessage" =>
           /\ lastOp'.msg.audio = 0 =>
                  /\ nextStartTimeRef' = nextStartTimeRef
                  /\ scheduled' = scheduled
                  /\ decodes' = decodes
                  /\ nextId' = nextId
           /\ lastOp'.msg = NoMessage =>
                  /\ agentStatus' = agentStatus
                  /\ coarseStatus' = coarseStatus
                  /\ isSessionActive' = isSessionActive ]_vars

\* C23 witness: an event that carries nothing has just been handled after one
\* buffer was scheduled: the status is still Speaking and the cursor still that
\* buffer's end.
C23_Witness ==
    /\ lastOp.op = "onmessage"
    /\ lastOp.msg = NoMessage
    /\ Len(scheduled) = 1
    /\ decodes = {}
    /\ agentStatus = Speaking
    /\ isSessionActive
    /\ nextStartTimeRef = scheduled[1].start + scheduled[1].dur

====
